---- MODULE Spec2Model ----
(***************************************************************************)
(* Model of eye_tracking_playground/ls2cs-net-extension/demo.py: the       *)
(* device selection of __main__, MPSPipeline.step (detection-resolution    *)
(* rescaling, confidence filter, crop, batched gaze inference, result      *)
(* assembly) and the camera capture loop.                                  *)
(*                                                                         *)
(* Numbers.  Coordinates delivered by the detector are integers here; the  *)
(* scale factors orig/det and every product box*scale are exact rationals  *)
(* [num, den] (den > 0, lowest terms).  Python computes them in binary     *)
(* floating point, whose rounding error is not represented.  int() is      *)
(* truncation toward zero, max(0, .) the clamp, and frame[a:b] follows     *)
(* Python slice rules (negative stop counts from the end).                 *)
(***************************************************************************)
EXTENDS Integers, Sequences, FiniteSets, TLC

VARIABLES
    pc,                    \* control point of the program / of step
    args,                  \* parsed command line: device, fd_width, fd_height
    cuda_available,        \* torch.cuda.is_available()
    mps_available,         \* torch.backends.mps.is_available()
    device,                \* selected torch.device ("unset" before selection)
    detection_resolution,  \* MPSPipeline.detection_resolution
    confidence_threshold,  \* Pipeline.confidence_threshold
    cap,                   \* camera handle: opened, acquisitions, releases
    delivered,             \* number of frames the camera has handed out
    success,               \* first value of cap.read()
    frame,                 \* second value of cap.read(); the frame the loop holds
    displayed,             \* ids of the frames passed to cv2.imshow
    effect,                \* last side effect of the loop driver
    scale_x, scale_y,      \* locals of step
    faces,                 \* detector output of the current step call
    idx,                   \* number of candidates the for loop has consumed
    face_imgs, bboxes, landmarks, scores,   \* locals of step
    pitch, yaw,            \* locals of step
    gaze_calls,            \* batch size of every predict_gaze call of this step
    results,               \* GazeResultContainer returned by step
    exc                    \* exception in flight: kind and raising site

vars == <<pc, args, cuda_available, mps_available, device, detection_resolution,
          confidence_threshold, cap, delivered, success, frame, displayed, effect,
          scale_x, scale_y, faces, idx, face_imgs, bboxes, landmarks, scores,
          pitch, yaw, gaze_calls, results, exc>>

startupVars == <<args, cuda_available, mps_available, device>>
configVars  == <<detection_resolution, confidence_threshold>>
cameraVars  == <<cap, delivered, success, displayed, effect>>
stepVars    == <<scale_x, scale_y, faces, idx, face_imgs, bboxes, landmarks,
                 scores, pitch, yaw, gaze_calls, results>>

----------------------------------------------------------------------------
(* Bounds of the model *)

\* largest number of candidates the detector returns for one frame
MaxFaces == 2
\* largest number of candidates per frame inside the capture loop
MaxLoopFaces == 1
\* number of frames the camera can hand out before every read fails
MaxFrames == 3

\* detector scores and confidence thresholds, on one integer scale
Scores == {1, 2}
Thresholds == {1, 2}

\* values of --fd-width / --fd-height and of the components of a
\* detection_resolution tuple handed to MPSPipeline directly
FdVals == {-1, 0, 2}

\* frame.shape[:2] of the frames given to step: <<height, width>>
FrameShapes == {<<2, 4>>, <<4, 3>>}
\* shape of the frames the camera delivers in the capture loop
CamShape == <<4, 3>>

\* boxes (x1, y1, x2, y2) the detector reports, in detection-frame pixels:
\* inside the frame, negative x_min, negative y_min, zero width, beyond the
\* frame, wholly negative
Boxes == { <<1, 1, 2, 2>>, <<-1, 0, 1, 1>>, <<0, -1, 2, 1>>,
           <<1, 1, 1, 2>>, <<0, 0, 5, 5>>, <<-2, -2, -1, -1>> }

\* the five landmark points reported with a box (taken on its corners)
LandmarkOf(box) == << <<box[1], box[2]>>, <<box[3], box[2]>>, <<box[1], box[4]>>,
                      <<box[3], box[4]>>, <<box[3], box[2]>> >>

Candidates == { [box |-> b, landmark |-> LandmarkOf(b), score |-> s] :
                b \in Boxes, s \in Scores }

RECURSIVE SeqsUpTo(_, _)
SeqsUpTo(S, n) ==
    IF n = 0 THEN { <<>> }
    ELSE LET shorter == SeqsUpTo(S, n - 1)
         IN  shorter \cup { Append(q, c) : q \in { r \in shorter : Len(r) = n - 1 }, c \in S }

\* what self.detector(detection_frame) can return: None, or a list of candidates
NoneFaces == [none |-> TRUE, items |-> <<>>]
DetectorOutputs(n) ==
    { NoneFaces } \cup { [none |-> FALSE, items |-> q] : q \in SeqsUpTo(Candidates, n) }

----------------------------------------------------------------------------
(* Arithmetic *)

Abs(n) == IF n < 0 THEN -n ELSE n

RECURSIVE GCD(_, _)
GCD(a, b) == IF b = 0 THEN a ELSE GCD(b, a % b)

\* the rational n/d, d > 0, in lowest terms
Frac(n, d) ==
    LET g == GCD(Abs(n), d)
    IN  [num |-> (IF n < 0 THEN -(Abs(n) \div g) ELSE n \div g), den |-> d \div g]

One == Frac(1, 1)

\* v * s for an integer coordinate v and a rational scale s
Times(v, s) == Frac(v * s.num, s.den)

\* Python int(): truncation toward zero
Trunc(f) == IF f.num >= 0 THEN f.num \div f.den ELSE -((-f.num) \div f.den)

\* Python max(0, v)
ClampMinId(v) == v
ClampMin(v) == IF v > 0 THEN v ELSE 0

\* len(range(*slice(start, stop).indices(n))) for start >= 0
SliceLen(start, stop, n) ==
    LET s == IF start < n THEN start ELSE n
        e == IF stop < 0 THEN (IF stop + n > 0 THEN stop + n ELSE 0)
             ELSE (IF stop < n THEN stop ELSE n)
    IN  IF e > s THEN e - s ELSE 0

----------------------------------------------------------------------------
(* MPSPipeline.step *)

\* model input size of the gaze network
InputSize == 224

NoResolution == [none |-> TRUE, w |-> 0, h |-> 0]
Resolution(w, h) == [none |-> FALSE, w |-> w, h |-> h]

\* `if self.detection_resolution:` -- None is falsy, a 2-tuple is truthy
Truthy(res) == ~res.none

\* whether step resizes the frame for detection
Downscales(res) == Truthy(res) /\ res.w > 0 /\ res.h > 0

ScaleXInverted(res, orig_width) ==
    IF Downscales(res) THEN Frac(res.w, orig_width) ELSE One
ScaleX(res, orig_width) ==
    IF Downscales(res) THEN Frac(orig_width, res.w) ELSE One

ScaleY(res, orig_height) ==
    IF Downscales(res) THEN Frac(orig_height, res.h) ELSE One

\* `if score < self.confidence_threshold: continue`
DiscardedLE(score, threshold) == score <= threshold
Discarded(score, threshold) == score < threshold

\* the crop rectangle (x_min, y_min, x_max, y_max)
CropRect(box, sx, sy) ==
    << ClampMin(Trunc(Times(box[1], sx))), ClampMin(Trunc(Times(box[2], sy))),
       Trunc(Times(box[3], sx)), Trunc(Times(box[4], sy)) >>

\* shape <<rows, cols>> of frame[y_min:y_max, x_min:x_max]
CropShape(rect, shape) ==
    << SliceLen(rect[2], rect[4], shape[1]), SliceLen(rect[1], rect[3], shape[2]) >>

\* cv2.cvtColor raises cv2.error on an empty image
CvtColorRaises(cropShape) == cropShape[1] = 0 \/ cropShape[2] = 0

ScaledBox(box, sx, sy) ==
    << Times(box[1], sx), Times(box[2], sy), Times(box[3], sx), Times(box[4], sy) >>

ScaledLandmark(landmark, sx, sy) ==
    [i \in 1..Len(landmark) |-> << Times(landmark[i][1], sx), Times(landmark[i][2], sy) >>]

\* scores.append(score)
ScoresNotAppended(list, score) == list
ScoresAppend(list, score) == Append(list, score)

\* `if len(face_imgs) > 0:`
HasFacesAlways(imgs) == TRUE
HasFaces(imgs) == Len(imgs) > 0

\* self.predict_gaze(batch): one pitch and one yaw per batch entry
PredictGaze(batch) == [p |-> [i \in 1..Len(batch) |-> "pitch"],
                       y |-> [i \in 1..Len(batch) |-> "yaw"]]

\* outcomes of a call into the gaze model or the renderer
CallOutcomes == {"ok", "ValueError", "RuntimeError"}

NoExc == [kind |-> "none", site |-> "none"]
EmptyResults == [pitch |-> <<>>, yaw |-> <<>>, bboxes |-> <<>>,
                 landmarks |-> <<>>, scores |-> <<>>]

\* lines 67-98: scale factors, detector call, empty accumulators
StepDetect(n) ==
    /\ pc = "step"
    /\ scale_x' = ScaleX(detection_resolution, frame.shape[2])
    /\ scale_y' = ScaleY(detection_resolution, frame.shape[1])
    /\ \E f \in DetectorOutputs(n) : faces' = f
    /\ idx' = 0
    /\ face_imgs' = <<>>
    /\ bboxes' = <<>>
    /\ landmarks' = <<>>
    /\ scores' = <<>>
    /\ pitch' = <<>>
    /\ yaw' = <<>>
    /\ gaze_calls' = <<>>
    /\ results' = EmptyResults
    /\ pc' = "for"
    /\ UNCHANGED <<startupVars, configVars, cameraVars, frame, exc>>

\* lines 101-123: one iteration of `for box, landmark, score in faces`
StepFace ==
    /\ pc = "for"
    /\ ~faces.none
    /\ idx < Len(faces.items)
    /\ LET c    == faces.items[idx + 1]
           rect == CropRect(c.box, scale_x, scale_y)
           crop == CropShape(rect, frame.shape)
       IN  /\ idx' = idx + 1
           /\ IF Discarded(c.score, confidence_threshold)
              THEN UNCHANGED <<pc, exc, face_imgs, bboxes, landmarks, scores>>
              ELSE IF CvtColorRaises(crop)
              THEN /\ pc' = "raised"
                   /\ exc' = [kind |-> "cv2.error", site |-> "step"]
                   /\ UNCHANGED <<face_imgs, bboxes, landmarks, scores>>
              ELSE /\ face_imgs' = Append(face_imgs,
                                          [rect |-> rect, shape |-> <<InputSize, InputSize>>])
                   /\ bboxes' = Append(bboxes, ScaledBox(c.box, scale_x, scale_y))
                   /\ landmarks' = Append(landmarks,
                                          ScaledLandmark(c.landmark, scale_x, scale_y))
                   /\ scores' = ScoresAppend(scores, c.score)
                   /\ UNCHANGED <<pc, exc>>
    /\ UNCHANGED <<startupVars, configVars, cameraVars, frame, scale_x, scale_y,
                   faces, pitch, yaw, gaze_calls, results>>

\* lines 100, 125-137: the gaze model, called once on the whole batch
StepPredict ==
    /\ pc = "for"
    /\ faces.none \/ idx = Len(faces.items)
    /\ IF ~faces.none /\ HasFaces(face_imgs)
       THEN /\ gaze_calls' = Append(gaze_calls, Len(face_imgs))
            /\ \E outcome \in CallOutcomes :
                 IF outcome = "ok"
                 THEN /\ pitch' = PredictGaze(face_imgs).p
                      /\ yaw' = PredictGaze(face_imgs).y
                      /\ pc' = "assemble"
                      /\ exc' = exc
                 ELSE /\ pc' = "raised"
                      /\ exc' = [kind |-> outcome, site |-> "step"]
                      /\ UNCHANGED <<pitch, yaw>>
       ELSE /\ pitch' = <<>>
            /\ yaw' = <<>>
            /\ pc' = "assemble"
            /\ UNCHANGED <<gaze_calls, exc>>
    /\ UNCHANGED <<startupVars, configVars, cameraVars, frame, scale_x, scale_y,
                   faces, idx, face_imgs, bboxes, landmarks, scores, results>>

\* lines 139-148: the GazeResultContainer
StepAssemble ==
    /\ pc = "assemble"
    /\ results' = [pitch |-> pitch, yaw |-> yaw, bboxes |-> bboxes,
                   landmarks |-> landmarks, scores |-> scores]
    /\ pc' = "returned"
    /\ UNCHANGED <<startupVars, configVars, cameraVars, frame, exc, scale_x, scale_y,
                   faces, idx, face_imgs, bboxes, landmarks, scores, pitch, yaw,
                   gaze_calls>>

NoFrame == [id |-> 0, shape |-> <<0, 0>>, decorated |-> FALSE]
NoCap == [opened |-> FALSE, acquisitions |-> 0, releases |-> 0]
DefaultArgs == [device |-> <<"c", "p", "u">>, fd_width |-> 0, fd_height |-> 0]

StepLocalsInit ==
    /\ scale_x = One
    /\ scale_y = One
    /\ faces = NoneFaces
    /\ idx = 0
    /\ face_imgs = <<>>
    /\ bboxes = <<>>
    /\ landmarks = <<>>
    /\ scores = <<>>
    /\ pitch = <<>>
    /\ yaw = <<>>
    /\ gaze_calls = <<>>
    /\ results = EmptyResults
    /\ exc = NoExc

\* a pipeline built with any detection_resolution and threshold, about to run
\* step on one frame
InitStep ==
    /\ pc = "step"
    /\ args = DefaultArgs
    /\ cuda_available = FALSE
    /\ mps_available = FALSE
    /\ device = "cpu"
    /\ detection_resolution \in
         { NoResolution } \cup { Resolution(w, h) : w \in FdVals, h \in FdVals }
    /\ confidence_threshold \in Thresholds
    /\ cap = NoCap
    /\ delivered = 0
    /\ success = TRUE
    /\ \E s \in FrameShapes : frame = [id |-> 1, shape |-> s, decorated |-> FALSE]
    /\ displayed = {}
    /\ effect = "none"
    /\ StepLocalsInit

StepFull == StepDetect(MaxFaces)

NextStep == StepFull \/ StepFace \/ StepPredict \/ StepAssemble

SpecStep == InitStep /\ [][NextStep]_vars

----------------------------------------------------------------------------
(* __main__: device selection and pipeline construction *)

\* str.lower() on the characters the device arguments are written in
LowerChar(c) ==
    CASE c = "C" -> "c" [] c = "P" -> "p" [] c = "U" -> "u" [] c = "G" -> "g"
      [] c = "D" -> "d" [] c = "A" -> "a" [] c = "M" -> "m" [] c = "S" -> "s"
      [] OTHER -> c
Lower(s) == [i \in 1..Len(s) |-> LowerChar(s[i])]

\* str.startswith
StartsWith(s, prefix) ==
    Len(s) >= Len(prefix) /\ SubSeq(s, 1, Len(prefix)) = prefix

\* values of --device
DeviceArgs == { <<"c", "p", "u">>, <<"C", "P", "U">>, <<"g", "p", "u">>,
                <<"g", "p", "u", ":", "0">>, <<"G", "P", "U", ":", "1">>,
                <<"c", "u", "d", "a">>, <<"c", "u", "d", "a", ":", "0">>,
                <<"m", "p", "s">>, <<"a", "u", "t", "o">>, <<>>,
                <<"c", "p", "u", ":", "0">>, <<"g", "p">> }

\* the cuda / mps / cpu cascade of lines 189-197 and 200-208
BestAvailable(cuda, mps) == IF cuda THEN "cuda:0" ELSE IF mps THEN "mps" ELSE "cpu"

\* lines 186-211
DeviceFor(arg, cuda, mps) ==
    IF Lower(arg) = <<"c", "p", "u">> THEN BestAvailable(cuda, mps)
    ELSE IF StartsWith(Lower(arg), <<"g", "p", "u">>) THEN BestAvailable(cuda, mps)
    ELSE "cpu"

\* lines 213-216
ResolutionFor(fd_width, fd_height) ==
    IF fd_width > 0 /\ fd_height > 0 THEN Resolution(fd_width, fd_height)
    ELSE NoResolution

SelectDevice ==
    /\ pc = "select_device"
    /\ device' = DeviceFor(args.device, cuda_available, mps_available)
    /\ pc' = "construct"
    /\ UNCHANGED <<args, cuda_available, mps_available, configVars, cameraVars,
                   frame, exc, stepVars>>

\* lines 213-223: MPSPipeline(..., detection_resolution=detection_resolution)
ConstructPipeline ==
    /\ pc = "construct"
    /\ detection_resolution' = ResolutionFor(args.fd_width, args.fd_height)
    /\ pc' = "open_camera"
    /\ UNCHANGED <<startupVars, confidence_threshold, cameraVars, frame, exc, stepVars>>

InitStartup ==
    /\ pc = "select_device"
    /\ args \in [device : DeviceArgs, fd_width : FdVals, fd_height : FdVals]
    /\ cuda_available \in BOOLEAN
    /\ mps_available \in BOOLEAN
    /\ device = "unset"
    /\ detection_resolution = NoResolution
    /\ confidence_threshold \in Thresholds
    /\ cap = NoCap
    /\ delivered = 0
    /\ success = FALSE
    /\ frame = NoFrame
    /\ displayed = {}
    /\ effect = "none"
    /\ StepLocalsInit

NextStartup == SelectDevice \/ ConstructPipeline

SpecStartup == InitStartup /\ [][NextStartup]_vars

----------------------------------------------------------------------------
(* __main__: the capture loop *)

\* the locals of a finished step call are gone once the caller runs again
StepLocalsGone ==
    /\ scale_x' = One
    /\ scale_y' = One
    /\ faces' = NoneFaces
    /\ idx' = 0
    /\ face_imgs' = <<>>
    /\ bboxes' = <<>>
    /\ landmarks' = <<>>
    /\ scores' = <<>>
    /\ pitch' = <<>>
    /\ yaw' = <<>>

\* cap.read(): a new frame, or (False, None)
CameraRead ==
    \E ok \in BOOLEAN :
        IF ok /\ delivered < MaxFrames
        THEN /\ success' = TRUE
             /\ frame' = [id |-> delivered + 1, shape |-> CamShape, decorated |-> FALSE]
             /\ delivered' = delivered + 1
        ELSE /\ success' = FALSE
             /\ frame' = NoFrame
             /\ delivered' = delivered

\* lines 225-229
OpenCamera ==
    /\ pc = "open_camera"
    /\ \E isOpened \in BOOLEAN :
         /\ cap' = [opened |-> isOpened, acquisitions |-> cap.acquisitions + 1,
                    releases |-> cap.releases]
         /\ IF isOpened
            THEN pc' = "read" /\ exc' = exc
            ELSE pc' = "crashed" /\ exc' = [kind |-> "IOError", site |-> "open"]
    /\ UNCHANGED <<startupVars, configVars, delivered, success, frame, displayed,
                   effect, stepVars>>

\* lines 235-236
ReadFrame ==
    /\ pc = "read"
    /\ CameraRead
    /\ pc' = "got"
    /\ UNCHANGED <<startupVars, configVars, cap, displayed, effect, exc, stepVars>>

\* lines 238-241: print, sleep, continue
RetryBreaks ==
    /\ pc = "got"
    /\ ~success
    /\ effect' = "log_sleep"
    /\ pc' = "done"
    /\ UNCHANGED <<startupVars, configVars, cap, delivered, success, frame,
                   displayed, exc, stepVars>>
RetryAfterFailure ==
    /\ pc = "got"
    /\ ~success
    /\ effect' = "log_sleep"
    /\ pc' = "read"
    /\ UNCHANGED <<startupVars, configVars, cap, delivered, success, frame,
                   displayed, exc, stepVars>>

\* lines 243-245: gaze_pipeline.step(frame) is entered
CallStep ==
    /\ pc = "got"
    /\ success
    /\ pc' = "step"
    /\ UNCHANGED <<startupVars, configVars, cameraVars, frame, exc, stepVars>>

\* line 247: frame = render(frame, results)
Render ==
    /\ pc = "returned"
    /\ \E outcome \in CallOutcomes :
         IF outcome = "ok"
         THEN /\ frame' = [frame EXCEPT !.decorated = TRUE]
              /\ pc' = "display"
              /\ exc' = exc
         ELSE /\ frame' = frame
              /\ pc' = "raised"
              /\ exc' = [kind |-> outcome, site |-> "render"]
    /\ StepLocalsGone
    /\ UNCHANGED <<startupVars, configVars, cameraVars, gaze_calls, results>>

\* line 248: `except ValueError:`
CaughtAny(kind) == TRUE
Caught(kind) == kind = "ValueError"

\* lines 244-250: the try statement around step and render
HandleException ==
    /\ pc = "raised"
    /\ IF Caught(exc.kind)
       THEN /\ pc' = "display"
            /\ exc' = NoExc
            /\ effect' = "except_pass"
       ELSE /\ pc' = "crashed"
            /\ exc' = exc
            /\ effect' = effect
    /\ StepLocalsGone
    /\ UNCHANGED <<startupVars, configVars, cap, delivered, success, frame,
                   displayed, gaze_calls, results>>

\* lines 252-257: FPS text, imshow, waitKey; 'q' breaks out of the loop, after
\* which the script ends
Display ==
    /\ pc = "display"
    /\ displayed' = displayed \cup {frame.id}
    /\ effect' = "imshow"
    /\ \E quit \in BOOLEAN : pc' = IF quit THEN "done" ELSE "tail_read"
    /\ UNCHANGED <<startupVars, configVars, cap, delivered, success, frame, exc,
                   stepVars>>

\* line 258: success, frame = cap.read() at the end of the loop body
TailRead ==
    /\ pc = "tail_read"
    /\ CameraRead
    /\ pc' = "read"
    /\ UNCHANGED <<startupVars, configVars, cap, displayed, effect, exc, stepVars>>

StepInLoop == StepDetect(MaxLoopFaces)

\* the program after the pipeline is constructed (line 223), on a machine
\* without accelerator and the default --device
Init ==
    /\ pc = "open_camera"
    /\ \E fw \in FdVals, fh \in FdVals :
         /\ args = [device |-> <<"c", "p", "u">>, fd_width |-> fw, fd_height |-> fh]
         /\ detection_resolution = ResolutionFor(fw, fh)
    /\ cuda_available = FALSE
    /\ mps_available = FALSE
    /\ device = DeviceFor(args.device, cuda_available, mps_available)
    /\ confidence_threshold \in Thresholds
    /\ cap = NoCap
    /\ delivered = 0
    /\ success = FALSE
    /\ frame = NoFrame
    /\ displayed = {}
    /\ effect = "none"
    /\ StepLocalsInit

Next ==
    \/ OpenCamera
    \/ ReadFrame
    \/ RetryAfterFailure
    \/ CallStep
    \/ StepInLoop
    \/ StepFace
    \/ StepPredict
    \/ StepAssemble
    \/ Render
    \/ HandleException
    \/ Display
    \/ TailRead

Spec == Init /\ [][Next]_vars

----------------------------------------------------------------------------
(* Properties of MPSPipeline.step, checked under SpecStep *)

\* the detector's candidates at or above the threshold, in detector order
Survivors ==
    IF faces.none THEN <<>>
    ELSE SelectSeq(faces.items, LAMBDA c : c.score >= confidence_threshold)

\* the rational f equals n/d (d > 0)
EqualsRatio(f, n, d) == f.num * d = n * f.den

\* C1: the result returned by step holds exactly the candidates whose score is
\* at or above the confidence threshold, in detector order: none below the
\* threshold appears, every one at or above it does.
C1_FilterByThreshold ==
    pc = "returned" =>
        /\ Len(results.scores) = Len(Survivors)
        /\ Len(results.bboxes) = Len(Survivors)
        /\ \A i \in 1..Len(Survivors) :
             /\ results.scores[i] = Survivors[i].score
             /\ results.bboxes[i] = ScaledBox(Survivors[i].box, scale_x, scale_y)
             /\ results.landmarks[i] = ScaledLandmark(Survivors[i].landmark, scale_x, scale_y)

\* a returned result that dropped a candidate below the threshold and kept a
\* later one whose score equals the threshold
C1_Witness ==
    /\ pc = "returned"
    /\ ~faces.none
    /\ Len(faces.items) = 2
    /\ faces.items[1].score < confidence_threshold
    /\ faces.items[2].score = confidence_threshold
    /\ Len(results.scores) = 1

\* C2: within one call of step the gaze model is never invoked while the
\* candidates are being filtered and cropped (never once per face); once the
\* loop is over it has been invoked exactly once, with a batch of size N, when
\* N >= 1 candidates survived, and not at all when N = 0.
C2_SingleBatchedInvocation ==
    /\ Len(gaze_calls) <= 1
    /\ pc \in {"step", "for"} => gaze_calls = <<>>
    /\ pc \in {"assemble", "returned"} =>
         IF Len(Survivors) >= 1 THEN gaze_calls = << Len(Survivors) >>
         ELSE gaze_calls = <<>>

\* a returned call in which two candidates survived and went out as one batch
C2_Witness ==
    /\ pc = "returned"
    /\ Len(Survivors) = 2
    /\ gaze_calls = <<2>>

\* C3: the result returned by step has pitch, yaw, bboxes, landmarks and scores
\* of one length, the number of candidates that survived the filter.
C3_AlignedLengths ==
    pc = "returned" =>
        /\ Len(results.pitch) = Len(Survivors)
        /\ Len(results.yaw) = Len(Survivors)
        /\ Len(results.bboxes) = Len(Survivors)
        /\ Len(results.landmarks) = Len(Survivors)
        /\ Len(results.scores) = Len(Survivors)

\* a returned result of length two out of a detector output of length two
C3_Witness ==
    /\ pc = "returned"
    /\ Len(results.pitch) = 2
    /\ Len(results.scores) = 2

\* C4: with a detection resolution (w, h), w > 0 and h > 0, and a frame of
\* W x H, a surviving box (x1, y1, x2, y2) is returned as
\* (x1*W/w, y1*H/h, x2*W/w, y2*H/h); with the resolution absent or a component
\* zero or negative it is returned unchanged.
C4_BoxRescaling ==
    pc = "returned" =>
        \A i \in 1..Len(results.bboxes) :
            LET b   == results.bboxes[i]
                box == Survivors[i].box
                W   == frame.shape[2]
                H   == frame.shape[1]
                res == detection_resolution
            IN  IF ~res.none /\ res.w > 0 /\ res.h > 0
                THEN /\ EqualsRatio(b[1], box[1] * W, res.w)
                     /\ EqualsRatio(b[2], box[2] * H, res.h)
                     /\ EqualsRatio(b[3], box[3] * W, res.w)
                     /\ EqualsRatio(b[4], box[4] * H, res.h)
                ELSE /\ EqualsRatio(b[1], box[1], 1)
                     /\ EqualsRatio(b[2], box[2], 1)
                     /\ EqualsRatio(b[3], box[3], 1)
                     /\ EqualsRatio(b[4], box[4], 1)

\* a returned box rescaled by 3/2 horizontally and 2 vertically
C4_Witness ==
    /\ pc = "returned"
    /\ ~detection_resolution.none
    /\ detection_resolution.w > 0
    /\ detection_resolution.h > 0
    /\ Len(results.bboxes) >= 1
    /\ scale_x = Frac(3, 2)
    /\ scale_y = Frac(2, 1)
    /\ results.bboxes[1][3] = Frac(3, 2)

\* C5 as stated: the min corner of every rescaled candidate, of the box
\* assembled into the result as well as of the crop rectangle, is >= 0.
C5_ResultBoxMinClamped ==
    pc = "returned" =>
        \A i \in 1..Len(results.bboxes) :
            /\ results.bboxes[i][1].num >= 0
            /\ results.bboxes[i][2].num >= 0
            /\ face_imgs[i].rect[1] >= 0
            /\ face_imgs[i].rect[2] >= 0

\* C5 amended: the crop rectangle of every surviving candidate has its min
\* corner clamped to >= 0 and its max corner equal to the truncated rescaled
\* max corner, unclamped; the box kept for the result is the rescaled box as
\* it is, min corner included.
C5_CropMinClamped ==
    /\ Len(face_imgs) = Len(bboxes)
    /\ \A i \in 1..Len(face_imgs) :
         LET r == face_imgs[i].rect
             b == bboxes[i]
         IN  /\ r[1] >= 0
             /\ r[2] >= 0
             /\ r[1] = (IF Trunc(b[1]) > 0 THEN Trunc(b[1]) ELSE 0)
             /\ r[2] = (IF Trunc(b[2]) > 0 THEN Trunc(b[2]) ELSE 0)
             /\ r[3] = Trunc(b[3])
             /\ r[4] = Trunc(b[4])
             /\ b = ScaledBox(Survivors[i].box, scale_x, scale_y)

\* a kept candidate whose rescaled box starts left of the frame (crop clamped
\* to 0, result box negative) beside one whose max corner lies beyond the frame
C5_Witness ==
    /\ Len(face_imgs) = 2
    /\ bboxes[1][1].num < 0
    /\ face_imgs[1].rect[1] = 0
    /\ face_imgs[2].rect[3] > frame.shape[2]
    /\ face_imgs[2].rect[4] > frame.shape[1]

----------------------------------------------------------------------------
(* Properties of the device selection, checked under SpecStartup *)

\* the names of the compute backends a --device value can start with
BackendNames == { <<"c", "p", "u">>, <<"g", "p", "u">>, <<"c", "u", "d", "a">>,
                  <<"m", "p", "s">> }

\* C6: device selection honours an explicit request: whatever accelerators are
\* available, a request for 'cpu' selects the CPU, a request that matches no
\* backend name selects the CPU, and a device is always selected.
C6_ExplicitRequestHonored ==
    pc # "select_device" =>
        /\ device \in {"cpu", "cuda:0", "mps"}
        /\ Lower(args.device) = <<"c", "p", "u">> => device = "cpu"
        /\ (\A n \in BackendNames : ~StartsWith(Lower(args.device), n)) => device = "cpu"

----------------------------------------------------------------------------
(* Properties of the capture loop, checked under Spec *)

\* C7 as stated: no failure raised by step or render ends the loop.
C7_AnyFailureCaught ==
    ~(pc = "crashed" /\ exc.site \in {"step", "render"})

\* C7 amended: a ValueError raised by step or render is caught at the loop
\* level: the frame the loop holds is left as read, without overlay, and goes
\* on to be displayed; a failure of any other class, the cv2.error of an empty
\* face crop included, is not caught and ends the loop.
C7_OnlyValueErrorCaught ==
    [][ pc = "raised" =>
          IF exc.kind = "ValueError"
          THEN /\ pc' = "display"
               /\ frame' = frame
               /\ ~frame'.decorated
               /\ displayed' = displayed
          ELSE pc' = "crashed" /\ exc' = exc ]_vars

\* a frame about to be displayed without overlay after a caught ValueError
C7_Witness ==
    /\ pc = "display"
    /\ effect = "except_pass"
    /\ success
    /\ ~frame.decorated

C9_CameraReleasedOnQuit ==
    /\ cap.acquisitions <= 1
    /\ pc \notin {"open_camera", "done"} => cap.releases = 0 /\ cap.acquisitions = 1
    /\ pc = "done" => cap.releases = 1 /\ cap.acquisitions = 1

\* C10: every frame the camera handed out has been displayed, unless it is the
\* frame the loop holds at the moment: no frame is dropped unprocessed.
C10_NoFrameDiscarded ==
    \A id \in 1..delivered : id \in displayed \/ (success /\ frame.id = id)

====
